---- MODULE Spec2Model ----
(***************************************************************************)
(* aTrustLogin-ARP: the session lifecycle of src/src/main.py.              *)
(*                                                                         *)
(* ATrustLogin drives a browser against a login portal, decides from the  *)
(* current URL and the page source whether the session is logged in,      *)
(* logs in when it is not, pickles cookies and local storage to           *)
(* ATrustLoginStorage.pkl, and main() repeats this in a keepalive loop.    *)
(*                                                                         *)
(* Strings are modelled as sequences of tokens: a URL is a sequence such  *)
(* as <<"https:", "x", "#", "login">>, the page source a sequence of the   *)
(* marker texts it shows.  Python's True / False / None are the strings   *)
(* "True" / "False" / "None".                                              *)
(***************************************************************************)
EXTENDS Integers, Sequences, FiniteSets, TLC

VARIABLES
    \* ---- configuration (parameters of main) ----
    keepalive,      \* main(keepalive=...): seconds between cycles, <= 0 is one-shot
    wait_atrust,    \* main(wait_atrust=...): pre-flight gate enabled
    interactive,    \* main(interactive=...): a person can be asked to step in
    \* ---- the program ----
    pc,             \* position of the single thread of control
    caller,         \* who called init(): "main" (line 248) or "login" (line 169)
    initialized,    \* ATrustLogin.initialized
    driver,         \* "none" (not constructed), "alive", "quit"
    detect,         \* value of the last is_logged() call
    loginRet,       \* value returned by the last login() call, "unset" before
    \* ---- the browser session and the world around it ----
    page,           \* [url, src]: driver.current_url and driver.page_source
    jar,            \* driver.get_cookies(): sequence of [name, value, path]
    storage,        \* window.localStorage: sequence of [key, value], keys unique
    file,           \* <data_dir>/ATrustLoginStorage.pkl
    serverTok,      \* the session token the portal honours, 0 when none
    \* ---- history (read by the properties only) ----
    exitStatus,     \* "running", "0" (exit(0)), "crashed" (uncaught exception)
    crashAt,        \* pc at which the uncaught exception was raised, "none" before
    faults,         \* exceptions injected so far
    submits,        \* clicks of the login button so far
    writes,         \* completed writes of the artifact file so far
    quitCalls,      \* calls of driver.quit() so far
    rejects,        \* submissions the portal did not accept
    everExpired,    \* the portal dropped a session during this run
    connected,      \* a connection attempt of wait_for_port has succeeded
    loads,          \* calls of load_storage() so far
    file0,          \* the artifact file at process start
    tok0,           \* serverTok at process start
    call,           \* the login() call in progress or last finished
    prev            \* the login() call before it

vars == <<keepalive, wait_atrust, interactive, pc, caller, initialized, driver, detect, loginRet,
          page, jar, storage, file, serverTok,
          exitStatus, crashAt, faults, submits, writes, quitCalls, rejects,
          everExpired, connected, loads, file0, tok0, call, prev>>

(***************************************************************************)
(* Bounds of the model.                                                    *)
(***************************************************************************)
MaxFaults == 2      \* exceptions the environment injects in one run
MaxSubmits == 2     \* login-button clicks in one run
MaxUrlLen == 4      \* tokens of a URL given to is_logged (classification runs)
MaxSrcLen == 2      \* tokens of a page source given to is_logged (classification runs)
MaxCookies == 2     \* cookies of a browser session (round-trip runs)
MaxEntries == 2     \* local-storage entries of a browser session (round-trip runs)

(***************************************************************************)
(* Pure helpers over token sequences.                                      *)
(***************************************************************************)
Contains(s, t) == \E i \in 1..Len(s) : s[i] = t

SeqsUpTo(S, n) == UNION {[1..k -> S] : k \in 0..n}

\* str.startswith(prefix), the prefix being one token
startswith(s, prefix) == Len(s) >= 1 /\ s[1] = prefix

\* urlparse(url).fragment: what follows the first "#", empty when there is none
fragment(url) ==
    IF Contains(url, "#")
    THEN LET i == CHOOSE k \in 1..Len(url) :
                      url[k] = "#" /\ \A j \in 1..(k - 1) : url[j] # "#"
         IN SubSeq(url, i + 1, Len(url))
    ELSE <<>>

\* self.must_be_logged_keywords, self.must_not_logged_keywords
must_be_logged_keywords == {"app_center", "user_info", "app_apply", "device_manage"}
must_not_logged_keywords == {"login", "captcha"}

\* The two page-source markers of line 204, in ASCII.
WorkspaceMarker == "workspace"            \* the text for "workbench"
LocalPasswordMarker == "local_password"   \* the text for "local password"

(***************************************************************************)
(* ATrustLogin.is_logged (lines 188-204) as a function of the current URL  *)
(* and the page source.                                                    *)
(***************************************************************************)
InFragment(url, keywords) == \E k \in keywords : Contains(fragment(url), k)

\* mutant: the keyword tests come before the about: test
is_logged_KeywordsFirst(url, src) ==
    IF InFragment(url, must_be_logged_keywords) THEN "True"
    ELSE IF InFragment(url, must_not_logged_keywords) THEN "False"
    ELSE IF startswith(url, "about:") THEN "None"
    ELSE IF Contains(src, WorkspaceMarker) /\ ~Contains(src, LocalPasswordMarker)
         THEN "True" ELSE "False"

\* mutant: the must-not-be-logged test comes before the must-be-logged test
is_logged_MustNotFirst(url, src) ==
    IF startswith(url, "about:") THEN "None"
    ELSE IF InFragment(url, must_not_logged_keywords) THEN "False"
    ELSE IF InFragment(url, must_be_logged_keywords) THEN "True"
    ELSE IF Contains(src, WorkspaceMarker) /\ ~Contains(src, LocalPasswordMarker)
         THEN "True" ELSE "False"

\* mutant: the must-not-be-logged test is missing
is_logged_NoMustNot(url, src) ==
    IF startswith(url, "about:") THEN "None"
    ELSE IF InFragment(url, must_be_logged_keywords) THEN "True"
    ELSE IF Contains(src, WorkspaceMarker) /\ ~Contains(src, LocalPasswordMarker)
         THEN "True" ELSE "False"

\* mutant: the local-password marker is not looked for
is_logged_NoLocalPassword(url, src) ==
    IF startswith(url, "about:") THEN "None"
    ELSE IF InFragment(url, must_be_logged_keywords) THEN "True"
    ELSE IF InFragment(url, must_not_logged_keywords) THEN "False"
    ELSE IF Contains(src, WorkspaceMarker) THEN "True" ELSE "False"

is_logged(url, src) ==
    IF startswith(url, "about:") THEN "None"
    ELSE IF InFragment(url, must_be_logged_keywords) THEN "True"
    ELSE IF InFragment(url, must_not_logged_keywords) THEN "False"
    ELSE IF Contains(src, WorkspaceMarker) /\ ~Contains(src, LocalPasswordMarker)
         THEN "True" ELSE "False"

\* Python truthiness of an is_logged() value: `if self.is_logged()`, `if not at.is_logged()`
Truthy(v) == v = "True"

(***************************************************************************)
(* The pages the portal shows in the runs of main().                       *)
(***************************************************************************)
BlankPage == [url |-> <<"about:", "blank">>, src |-> <<>>]
LoginPage == [url |-> <<"https:", "x", "#", "login">>, src |-> <<LocalPasswordMarker>>]
AppPage == [url |-> <<"https:", "x", "#", "app_center">>, src |-> <<WorkspaceMarker>>]
PlainWorkspacePage == [url |-> <<"https:", "x">>, src |-> <<WorkspaceMarker>>]
PlainLoginPage == [url |-> <<"https:", "x">>, src |-> <<WorkspaceMarker, LocalPasswordMarker>>]

Pages == {BlankPage, LoginPage, AppPage, PlainWorkspacePage, PlainLoginPage}

\* What the portal renders: with a live session one of its workspace pages,
\* without one a login page or nothing at all.
PortalPages(auth) ==
    IF auth THEN {AppPage, PlainWorkspacePage}
    ELSE {LoginPage, PlainLoginPage, BlankPage}

\* The inputs of the classification runs.
UrlTokens == {"about:", "https:", "#", "app_center", "login", "x"}
SrcTokens == {WorkspaceMarker, LocalPasswordMarker, "x"}
ClassifyInputs == {[url |-> u, src |-> s] : u \in SeqsUpTo(UrlTokens, MaxUrlLen),
                                            s \in SeqsUpTo(SrcTokens, MaxSrcLen)}

(***************************************************************************)
(* The artifact file and the browser's cookie jar and local storage.       *)
(***************************************************************************)
NoFile == [kind |-> "absent"]
CorruptFile == [kind |-> "corrupt"]
\* pickle.dump(ATrustLoginStorage(cookies=..., local_storage=...))
Pickle(cookies, local_storage) ==
    [kind |-> "pickle", cookies |-> cookies, local_storage |-> local_storage]

SessionCookie(tok) == [name |-> "sid", value |-> tok, path |-> "/"]
UserEntry(tok) == [key |-> "user", value |-> tok]

\* driver.delete_cookie(name): every cookie of that name goes, whatever its path
delete_cookie(j, name) == SelectSeq(j, LAMBDA c : c.name # name)

\* driver.add_cookie(cookie): the browser keeps one cookie per name and path
add_cookie(j, cookie) ==
    Append(SelectSeq(j, LAMBDA c : ~(c.name = cookie.name /\ c.path = cookie.path)),
           cookie)

\* window.localStorage.setItem(key, value)
setItem(st, key, value) ==
    IF \E i \in 1..Len(st) : st[i].key = key
    THEN [i \in 1..Len(st) |->
             IF st[i].key = key THEN [key |-> key, value |-> value] ELSE st[i]]
    ELSE Append(st, [key |-> key, value |-> value])

\* load_storage, lines 134-136: each stored cookie is deleted by name, then added
RECURSIVE RestoreCookies(_, _)
RestoreCookies(j, cookies) ==
    IF cookies = <<>> THEN j
    ELSE RestoreCookies(add_cookie(delete_cookie(j, Head(cookies).name), Head(cookies)),
                        Tail(cookies))

\* json.dumps of a string: the string between quotation marks (lines 139-140)
json_dumps(x) == <<"\"", x, "\"">>

\* The string a JavaScript string literal stands for, in the script of line 141
js_string(literal) == literal[2]

\* load_storage, lines 138-141: each stored entry is set in window.localStorage
RECURSIVE RestoreLocalStorage(_, _)
RestoreLocalStorage(st, entries) ==
    IF entries = <<>> THEN st
    ELSE RestoreLocalStorage(setItem(st, js_string(json_dumps(Head(entries).key)),
                                         js_string(json_dumps(Head(entries).value))),
                             Tail(entries))

\* The portal honours the browser's session cookie.
Auth == serverTok # 0 /\ \E i \in 1..Len(jar) : jar[i] = SessionCookie(serverTok)

\* The artifact files a run may find at its start.
StartFiles == {NoFile, CorruptFile, Pickle(<<>>, <<>>),
               Pickle(<<SessionCookie(1)>>, <<UserEntry(1)>>)}

\* keepalive values tried: one-shot (<= 0) and the default of line 239
KeepaliveValues == {0, 200}

(***************************************************************************)
(* The state after process start, before main() has done anything.         *)
(***************************************************************************)
NoCall == [pre |-> "unset", post |-> "unset", submits |-> 0, entered |-> FALSE,
           wrote |-> FALSE, valid |-> TRUE, fileBefore |-> NoFile]
NoPrev == [ret |-> "unset", submits |-> 0, valid |-> TRUE]

Init ==
    /\ keepalive \in KeepaliveValues
    /\ wait_atrust \in BOOLEAN
    /\ interactive \in BOOLEAN
    /\ pc = "start"
    /\ caller = "main"
    /\ initialized = FALSE
    /\ driver = "none"
    /\ detect = "unset"
    /\ loginRet = "unset"
    /\ page = BlankPage
    /\ jar = <<>>
    /\ storage = <<>>
    /\ file \in StartFiles
    /\ serverTok \in {0, 1}
    /\ exitStatus = "running"
    /\ crashAt = "none"
    /\ faults = 0
    /\ submits = 0
    /\ writes = 0
    /\ quitCalls = 0
    /\ rejects = 0
    /\ everExpired = FALSE
    /\ connected = FALSE
    /\ loads = 0
    /\ file0 = file
    /\ tok0 = serverTok
    /\ call = [NoCall EXCEPT !.fileBefore = file]
    /\ prev = NoPrev

confVars == <<keepalive, wait_atrust, interactive, file0, tok0>>
worldVars == <<page, jar, storage, file, serverTok>>
countVars == <<submits, writes, quitCalls, rejects, everExpired, connected, loads>>
callVars == <<call, prev>>

(***************************************************************************)
(* Exceptions.  The statements of init() run outside the try block when    *)
(* main() calls it (line 248) and inside it when login() does (line 169).  *)
(***************************************************************************)
InitSites == {"init_open", "init_wait", "init_load"}
TrySites == {"loop", "relog_open", "login_detect", "login_enter", "login_click",
             "login_redetect", "update_storage", "close", "ka_sleep", "ka_open"}

\* mutant: the try block ends before the keepalive branch (lines 260-266)
Handler_NarrowTry(site, who) ==
    IF site \in {"close", "ka_sleep", "ka_open"} THEN "crashed"
    ELSE IF site \in TrySites \/ (site \in InitSites /\ who = "login")
         THEN "except" ELSE "crashed"

\* Where an exception raised at `site` lands: the except clause of line 267,
\* or nowhere (the process dies with a traceback).
Handler(site, who) ==
    IF site \in TrySites \/ (site \in InitSites /\ who = "login")
    THEN "except" ELSE "crashed"

Raised(site) ==
    /\ crashAt' = IF Handler(site, caller) = "crashed" THEN site ELSE crashAt
    /\ pc' = Handler(site, caller)
    /\ exitStatus' = IF Handler(site, caller) = "crashed" THEN "crashed" ELSE exitStatus

\* An exception the environment injects (a timeout, a lost connection, ...).
Injected(site) ==
    /\ faults < MaxFaults
    /\ faults' = faults + 1
    /\ Raised(site)

Goto(label) ==
    /\ pc' = label
    /\ UNCHANGED <<crashAt, exitStatus, faults>>

(***************************************************************************)
(* main(), lines 239-248: the pre-flight gate and the construction.        *)
(***************************************************************************)
\* mutant: the gate is never waited for
GateBranch_Skip(w) == "construct"

\* lines 242-243: if wait_atrust: ATrustLogin.wait_for_port(54631)
GateBranch(w) == IF w THEN "wait_port" ELSE "construct"

\* lines 240-243
Start ==
    /\ pc = "start"
    /\ Goto(GateBranch(wait_atrust))
    /\ UNCHANGED <<confVars, worldVars, countVars, callVars,
                   caller, initialized, driver, detect, loginRet>>

\* wait_for_port, lines 226-235: one connection attempt, which succeeds
\* (break) or is refused or times out (the except clause of line 235)
WaitForPort ==
    /\ pc = "wait_port"
    /\ \E ok \in BOOLEAN :
          /\ connected' = ok
          /\ Goto(IF ok THEN "construct" ELSE "port_sleep")
    /\ UNCHANGED <<confVars, worldVars, callVars,
                   submits, writes, quitCalls, rejects, everExpired, loads,
                   caller, initialized, driver, detect, loginRet>>

\* wait_for_port, line 237: time.sleep(loading_delay), then the next attempt
PortSleep ==
    /\ pc = "port_sleep"
    /\ Goto("wait_port")
    /\ UNCHANGED <<confVars, worldVars, countVars, callVars,
                   caller, initialized, driver, detect, loginRet>>

\* ATrustLogin.__init__, lines 23-79, then the call of init() at line 248
Construct ==
    /\ pc = "construct"
    /\ \/ /\ driver' = "alive"
          /\ initialized' = FALSE
          /\ caller' = "main"
          /\ Goto("init")
       \/ /\ Injected("construct")
          /\ UNCHANGED <<driver, initialized, caller>>
    /\ UNCHANGED <<confVars, worldVars, countVars, callVars, detect, loginRet>>

(***************************************************************************)
(* ATrustLogin.init, lines 160-166.                                        *)
(***************************************************************************)
InitReturn(who) == IF who = "main" THEN "loop" ELSE "login_detect"

\* mutant: the `if not self.initialized` test is missing
InitBranch_Always(ready, who) == "init_open"

\* line 161: if not self.initialized
InitBranch(ready, who) == IF ready THEN InitReturn(who) ELSE "init_open"

\* line 161
InitEnter ==
    /\ pc = "init"
    /\ Goto(InitBranch(initialized, caller))
    /\ UNCHANGED <<confVars, worldVars, countVars, callVars,
                   caller, initialized, driver, detect, loginRet>>

\* open_portal, lines 82-83: driver.get(portal_address).  A navigation that
\* raises leaves the old page or a blank one.
Navigate(site, next) ==
    /\ \/ /\ page' \in PortalPages(Auth)
          /\ Goto(next)
       \/ /\ page' \in {page, BlankPage}
          /\ Injected(site)
    /\ UNCHANGED <<jar, storage, file, serverTok>>

\* line 162
InitOpen ==
    /\ pc = "init_open"
    /\ Navigate("init_open", "init_wait")
    /\ UNCHANGED <<confVars, countVars, callVars,
                   caller, initialized, driver, detect, loginRet>>

\* line 163: wait_login_page, a TimeoutException after 10 s
InitWait ==
    /\ pc = "init_wait"
    /\ \/ Goto("init_delay")
       \/ Injected("init_wait")
    /\ UNCHANGED <<confVars, worldVars, countVars, callVars,
                   caller, initialized, driver, detect, loginRet>>

\* line 164: delay_loading
InitDelay ==
    /\ pc = "init_delay"
    /\ Goto("init_load")
    /\ UNCHANGED <<confVars, worldVars, countVars, callVars,
                   caller, initialized, driver, detect, loginRet>>

\* mutant: load_storage restores local storage but not the cookies
RestoredJar_None(j, f) == j

\* load_storage, lines 130-136: the cookie jar after the restore
RestoredJar(j, f) ==
    IF f.kind = "pickle" THEN RestoreCookies(j, f.cookies) ELSE j

\* load_storage, lines 138-141: window.localStorage after the restore
RestoredStorage(st, f) ==
    IF f.kind = "pickle" THEN RestoreLocalStorage(st, f.local_storage) ELSE st

\* mutant: the file is opened without the os.path.exists test and the
\* FileNotFoundError is not caught
LoadOutcome_NoExistsTest(f) == IF f.kind = "pickle" THEN "ok" ELSE "raise"

\* load_storage, lines 128-145: a missing file is skipped (line 129, and the
\* except clause of line 143), a file that does not unpickle raises out of
\* pickle.load, which nothing catches
LoadOutcome(f) == IF f.kind = "corrupt" THEN "raise" ELSE "ok"

\* lines 165-166: load_storage, then initialized = True
InitLoad ==
    /\ pc = "init_load"
    /\ loads' = loads + 1
    /\ \/ /\ LoadOutcome(file) = "ok"
          /\ jar' = RestoredJar(jar, file)
          /\ storage' = RestoredStorage(storage, file)
          /\ initialized' = TRUE
          /\ Goto(InitReturn(caller))
       \/ /\ LoadOutcome(file) = "raise"
          /\ Raised("init_load")
          /\ UNCHANGED <<jar, storage, initialized, faults>>
       \/ /\ file.kind = "pickle"
          /\ Injected("init_load")
          /\ UNCHANGED <<jar, storage, initialized>>
    /\ UNCHANGED <<confVars, callVars, page, file, serverTok,
                   submits, writes, quitCalls, rejects, everExpired, connected,
                   caller, driver, detect, loginRet>>

(***************************************************************************)
(* main(), lines 250-270: the keepalive loop.                              *)
(***************************************************************************)
\* mutant: only a definite False sends the loop to login()
LoopBranch_OnlyFalse(v) == IF v = "False" THEN "relog_open" ELSE "keepalive_check"

\* lines 252-260: `if not at.is_logged()` runs lines 253-258, else line 260 is next
LoopBranch(v) == IF Truthy(v) THEN "keepalive_check" ELSE "relog_open"

\* line 252: if not at.is_logged().  A driver that has quit raises.
Loop ==
    /\ pc = "loop"
    /\ \/ /\ driver = "alive"
          /\ detect' = is_logged(page.url, page.src)
          /\ Goto(LoopBranch(detect'))
       \/ /\ driver = "alive"
          /\ Injected("loop")
          /\ UNCHANGED detect
       \/ /\ driver = "quit"
          /\ Raised("loop")
          /\ UNCHANGED <<detect, faults>>
    /\ UNCHANGED <<confVars, worldVars, countVars, callVars,
                   caller, initialized, driver, loginRet>>

\* line 254
RelogOpen ==
    /\ pc = "relog_open"
    /\ Navigate("relog_open", "relog_delay")
    /\ UNCHANGED <<confVars, countVars, callVars,
                   caller, initialized, driver, detect, loginRet>>

\* line 255
RelogDelay ==
    /\ pc = "relog_delay"
    /\ Goto("login")
    /\ UNCHANGED <<confVars, worldVars, countVars, callVars,
                   caller, initialized, driver, detect, loginRet>>

(***************************************************************************)
(* ATrustLogin.require_interact, lines 154-158: wait for a key press in    *)
(* interactive mode, raise Exception("User Interact required") otherwise.  *)
(* No line of the source calls it.                                         *)
(***************************************************************************)
require_interact(inter) == IF inter THEN "input" ELSE "raise"

(***************************************************************************)
(* ATrustLogin.login, lines 168-186.                                       *)
(***************************************************************************)
\* line 256 calls login(); line 169 calls init()
LoginCall ==
    /\ pc = "login"
    /\ caller' = "login"
    /\ prev' = [ret |-> loginRet, submits |-> call.submits, valid |-> call.valid]
    /\ call' = [NoCall EXCEPT !.fileBefore = file]
    /\ loginRet' = "unset"
    /\ Goto("init")
    /\ UNCHANGED <<confVars, worldVars, countVars, initialized, driver, detect>>

\* mutant: the already-logged-in test of lines 171-173 is missing
AfterDetect_NoShortCircuit(v) == "login_enter"

\* lines 171-175: where login() goes after its first is_logged()
AfterDetect(v) == IF Truthy(v) THEN "after_login" ELSE "login_enter"

\* lines 171-173
LoginDetect ==
    /\ pc = "login_detect"
    /\ \/ /\ detect' = is_logged(page.url, page.src)
          /\ call' = [call EXCEPT !.pre = detect']
          /\ loginRet' = IF AfterDetect(detect') = "after_login" THEN "True" ELSE loginRet
          /\ Goto(AfterDetect(detect'))
       \/ /\ Injected("login_detect")
          /\ UNCHANGED <<detect, call, loginRet>>
    /\ UNCHANGED <<confVars, worldVars, countVars, prev, caller, initialized, driver>>

\* line 175: enter_credentials (lines 95-121)
LoginEnter ==
    /\ pc = "login_enter"
    /\ \/ /\ call' = [call EXCEPT !.entered = TRUE]
          /\ Goto("login_click")
       \/ /\ Injected("login_enter")
          /\ UNCHANGED call
    /\ UNCHANGED <<confVars, worldVars, countVars, prev,
                   caller, initialized, driver, detect, loginRet>>

\* lines 176-177: delay_input, click_login_button.  The portal accepts the
\* credentials (a new session, its cookie and local-storage entry set, a
\* workspace page) or does not (a login page).
LoginClick ==
    /\ pc = "login_click"
    /\ \/ /\ submits < MaxSubmits
          /\ submits' = submits + 1
          /\ call' = [call EXCEPT !.submits = @ + 1]
          /\ \/ /\ serverTok' = submits' + 1
                /\ jar' = add_cookie(delete_cookie(jar, "sid"), SessionCookie(serverTok'))
                /\ storage' = setItem(storage, "user", serverTok')
                /\ page' \in PortalPages(TRUE)
                /\ UNCHANGED rejects
             \/ /\ page' \in PortalPages(FALSE)
                /\ rejects' = rejects + 1
                /\ UNCHANGED <<serverTok, jar, storage>>
          /\ Goto("login_settle")
       \/ /\ Injected("login_click")
          /\ UNCHANGED <<submits, call, serverTok, jar, storage, page, rejects>>
    /\ UNCHANGED <<confVars, file, writes, quitCalls, everExpired, connected, loads,
                   prev, caller, initialized, driver, detect, loginRet>>

\* lines 179-181: delay_loading after the submit
LoginSettle ==
    /\ pc = "login_settle"
    /\ Goto("login_redetect")
    /\ UNCHANGED <<confVars, worldVars, countVars, callVars,
                   caller, initialized, driver, detect, loginRet>>

\* mutant: the artifacts are stored whatever the second is_logged() says
AfterRedetect_Always(v) == "update_storage"

\* lines 183-186: where login() goes after its second is_logged()
AfterRedetect(v) == IF Truthy(v) THEN "update_storage" ELSE "after_login"

\* lines 183-186; falling off the end of login() returns None
LoginRedetect ==
    /\ pc = "login_redetect"
    /\ \/ /\ detect' = is_logged(page.url, page.src)
          /\ call' = [call EXCEPT !.post = detect']
          /\ loginRet' = IF AfterRedetect(detect') = "after_login" THEN "None" ELSE loginRet
          /\ Goto(AfterRedetect(detect'))
       \/ /\ Injected("login_redetect")
          /\ UNCHANGED <<detect, call, loginRet>>
    /\ UNCHANGED <<confVars, worldVars, countVars, prev, caller, initialized, driver>>

\* mutant: the cookies are left out of the stored artifacts
CapturedData_NoCookies(j, st) == Pickle(<<>>, st)

\* update_storage, lines 213-216: the artifacts captured from the live session
CapturedData(j, st) == Pickle(j, st)

\* lines 185-186: update_storage (lines 212-220), then return True.  A failure
\* before the file is opened leaves it as it was; one after open(..., "wb")
\* leaves a truncated file.
UpdateStorage ==
    /\ pc = "update_storage"
    /\ \/ /\ file' = CapturedData(jar, storage)
          /\ writes' = writes + 1
          /\ call' = [call EXCEPT !.wrote = TRUE]
          /\ loginRet' = "True"
          /\ Goto("after_login")
       \/ /\ file' \in {file, CorruptFile}
          /\ Injected("update_storage")
          /\ UNCHANGED <<writes, call, loginRet>>
    /\ UNCHANGED <<confVars, page, jar, storage, serverTok, submits, quitCalls, rejects,
                   everExpired, connected, loads, prev, caller, initialized, driver, detect>>

\* line 256: if at.login(...) is True
AfterLogin ==
    /\ pc = "after_login"
    /\ Goto(IF loginRet = "True" THEN "settle1" ELSE "keepalive_check")
    /\ UNCHANGED <<confVars, worldVars, countVars, callVars,
                   caller, initialized, driver, detect, loginRet>>

\* line 257
Settle1 ==
    /\ pc = "settle1"
    /\ Goto("settle2")
    /\ UNCHANGED <<confVars, worldVars, countVars, callVars,
                   caller, initialized, driver, detect, loginRet>>

\* line 258
Settle2 ==
    /\ pc = "settle2"
    /\ Goto("keepalive_check")
    /\ UNCHANGED <<confVars, worldVars, countVars, callVars,
                   caller, initialized, driver, detect, loginRet>>

\* mutant: one-shot mode exits without closing the browser
KeepaliveBranch_NoClose(k) == IF k <= 0 THEN "exit" ELSE "ka_sleep"

\* mutant: only a negative keepalive is one-shot
KeepaliveBranch_Negative(k) == IF k < 0 THEN "close" ELSE "ka_sleep"

\* lines 260-264: one-shot mode closes and exits, keepalive mode sleeps
KeepaliveBranch(k) == IF k <= 0 THEN "close" ELSE "ka_sleep"

\* line 260
KeepaliveCheck ==
    /\ pc = "keepalive_check"
    /\ Goto(KeepaliveBranch(keepalive))
    /\ UNCHANGED <<confVars, worldVars, countVars, callVars,
                   caller, initialized, driver, detect, loginRet>>

\* line 261: at.close() is driver.quit() (lines 206-207).  A quit that raises
\* may or may not have ended the session.
Close ==
    /\ pc = "close"
    /\ quitCalls' = quitCalls + 1
    /\ \/ /\ driver' = "quit"
          /\ Goto("exit")
       \/ /\ driver' \in {"alive", "quit"}
          /\ Injected("close")
    /\ UNCHANGED <<confVars, worldVars, submits, writes, rejects, everExpired,
                   connected, loads, callVars, caller, initialized, detect, loginRet>>

\* line 262: exit(0) raises SystemExit, which `except Exception` lets through
Exit ==
    /\ pc = "exit"
    /\ pc' = "exited"
    /\ exitStatus' = "0"
    /\ UNCHANGED <<confVars, worldVars, countVars, callVars, crashAt, faults,
                   caller, initialized, driver, detect, loginRet>>

\* line 264: time.sleep(keepalive)
KaSleep ==
    /\ pc = "ka_sleep"
    /\ \/ Goto("ka_open")
       \/ Injected("ka_sleep")
    /\ UNCHANGED <<confVars, worldVars, countVars, callVars,
                   caller, initialized, driver, detect, loginRet>>

\* line 265
KaOpen ==
    /\ pc = "ka_open"
    /\ Navigate("ka_open", "ka_delay")
    /\ UNCHANGED <<confVars, countVars, callVars,
                   caller, initialized, driver, detect, loginRet>>

\* line 266
KaDelay ==
    /\ pc = "ka_delay"
    /\ Goto("loop")
    /\ UNCHANGED <<confVars, worldVars, countVars, callVars,
                   caller, initialized, driver, detect, loginRet>>

\* lines 267-269: except Exception: log the error
Except ==
    /\ pc = "except"
    /\ Goto("except_delay")
    /\ UNCHANGED <<confVars, worldVars, countVars, callVars,
                   caller, initialized, driver, detect, loginRet>>

\* line 270: delay_loading, then the next pass of `while True`
ExceptDelay ==
    /\ pc = "except_delay"
    /\ Goto("loop")
    /\ UNCHANGED <<confVars, worldVars, countVars, callVars,
                   caller, initialized, driver, detect, loginRet>>

(***************************************************************************)
(* The portal drops the session (it expires, or is ended elsewhere).       *)
(***************************************************************************)
Expire ==
    /\ exitStatus = "running"
    /\ serverTok # 0
    /\ serverTok' = 0
    /\ everExpired' = TRUE
    /\ call' = [call EXCEPT !.valid = FALSE]
    /\ UNCHANGED <<confVars, page, jar, storage, file, submits, writes, quitCalls,
                   rejects, connected, loads, prev, pc, crashAt, exitStatus, faults,
                   caller, initialized, driver, detect, loginRet>>

Next ==
    \/ Start \/ WaitForPort \/ PortSleep \/ Construct
    \/ InitEnter \/ InitOpen \/ InitWait \/ InitDelay \/ InitLoad
    \/ Loop \/ RelogOpen \/ RelogDelay
    \/ LoginCall \/ LoginDetect \/ LoginEnter \/ LoginClick \/ LoginSettle
    \/ LoginRedetect \/ UpdateStorage \/ AfterLogin \/ Settle1 \/ Settle2
    \/ KeepaliveCheck \/ Close \/ Exit \/ KaSleep \/ KaOpen \/ KaDelay
    \/ Except \/ ExceptDelay
    \/ Expire

Spec == Init /\ [][Next]_vars

(***************************************************************************)
(* Keepalive runs: main() with keepalive > 0 and interactive at its        *)
(* default.  The program is one thread that keeps running: every sleep,    *)
(* wait and browser call returns or raises, so a step of the program that  *)
(* is possible is eventually taken.  The portal dropping the session is    *)
(* the environment's step and carries no fairness.                         *)
(***************************************************************************)
InitKeepalive ==
    /\ Init
    /\ keepalive > 0
    /\ ~interactive

\* The steps of the program that a run with keepalive > 0 can take
LoopNext ==
    \/ Start \/ WaitForPort \/ PortSleep \/ Construct
    \/ InitEnter \/ InitOpen \/ InitWait \/ InitDelay \/ InitLoad
    \/ Loop \/ RelogOpen \/ RelogDelay
    \/ LoginCall \/ LoginDetect \/ LoginEnter \/ LoginClick \/ LoginSettle
    \/ LoginRedetect \/ UpdateStorage \/ AfterLogin \/ Settle1 \/ Settle2
    \/ KeepaliveCheck \/ KaSleep \/ KaOpen \/ KaDelay
    \/ Except \/ ExceptDelay

NextKeepalive == LoopNext \/ Expire

SpecKeepalive == InitKeepalive /\ [][NextKeepalive]_vars /\ WF_vars(LoopNext)

(***************************************************************************)
(* Classification runs: is_logged applied to every URL and page source of  *)
(* the bounded input sets.                                                 *)
(***************************************************************************)
InitClassify ==
    /\ keepalive = 0
    /\ wait_atrust = FALSE
    /\ interactive = FALSE
    /\ pc = "classify"
    /\ caller = "main"
    /\ initialized = TRUE
    /\ driver = "alive"
    /\ detect = "unset"
    /\ loginRet = "unset"
    /\ page \in ClassifyInputs
    /\ jar = <<>>
    /\ storage = <<>>
    /\ file = NoFile
    /\ serverTok = 0
    /\ exitStatus = "running"
    /\ crashAt = "none"
    /\ faults = 0
    /\ submits = 0
    /\ writes = 0
    /\ quitCalls = 0
    /\ rejects = 0
    /\ everExpired = FALSE
    /\ connected = FALSE
    /\ loads = 0
    /\ file0 = file
    /\ tok0 = serverTok
    /\ call = NoCall
    /\ prev = NoPrev

\* lines 188-204 on the current URL and page source
Classify ==
    /\ pc = "classify"
    /\ detect' = is_logged(page.url, page.src)
    /\ pc' = "classified"
    /\ UNCHANGED <<confVars, worldVars, countVars, callVars, crashAt, exitStatus, faults,
                   caller, initialized, driver, loginRet>>

NextClassify == Classify

SpecClassify == InitClassify /\ [][NextClassify]_vars

(***************************************************************************)
(* Round-trip runs: a session's cookies and local storage are saved by     *)
(* update_storage, the browser is started afresh, and load_storage         *)
(* restores from the file.                                                 *)
(***************************************************************************)
CookieNames == {"sid", "lang"}
CookiePaths == {"/", "/portal"}
ArtifactValues == {1, 2}
StorageKeys == {"user", "theme"}

Cookies == [name : CookieNames, value : ArtifactValues, path : CookiePaths]
Entries == [key : StorageKeys, value : ArtifactValues]

\* What a browser can hold: one cookie per name and path, one entry per key
Jars == {j \in SeqsUpTo(Cookies, MaxCookies) :
            \A a, b \in 1..Len(j) :
                (j[a].name = j[b].name /\ j[a].path = j[b].path) => a = b}
Storages == {st \in SeqsUpTo(Entries, MaxEntries) :
                \A a, b \in 1..Len(st) : st[a].key = st[b].key => a = b}

InitRoundTrip ==
    /\ keepalive = 0
    /\ wait_atrust = FALSE
    /\ interactive = FALSE
    /\ pc = "rt_save"
    /\ caller = "main"
    /\ initialized = TRUE
    /\ driver = "alive"
    /\ detect = "unset"
    /\ loginRet = "unset"
    /\ page = AppPage
    /\ jar \in Jars
    /\ storage \in Storages
    /\ file \in {NoFile, Pickle(<<SessionCookie(1)>>, <<UserEntry(1)>>)}
    /\ serverTok = 0
    /\ exitStatus = "running"
    /\ crashAt = "none"
    /\ faults = 0
    /\ submits = 0
    /\ writes = 0
    /\ quitCalls = 0
    /\ rejects = 0
    /\ everExpired = FALSE
    /\ connected = FALSE
    /\ loads = 0
    /\ file0 = file
    /\ tok0 = serverTok
    /\ call = NoCall
    /\ prev = NoPrev

roundTripFrame == <<confVars, callVars, page, serverTok, submits, quitCalls, rejects,
                    everExpired, connected, crashAt, exitStatus, faults,
                    caller, driver, detect, loginRet>>

\* update_storage, lines 212-220
RoundTripSave ==
    /\ pc = "rt_save"
    /\ file' = CapturedData(jar, storage)
    /\ writes' = writes + 1
    /\ pc' = "rt_restart"
    /\ UNCHANGED <<roundTripFrame, jar, storage, initialized, loads>>

\* A new process: the constructor starts a browser with a fresh profile
\* (lines 55-77; the user-data-dir option of line 55 is commented out)
RoundTripRestart ==
    /\ pc = "rt_restart"
    /\ jar' = <<>>
    /\ storage' = <<>>
    /\ initialized' = FALSE
    /\ pc' = "rt_load"
    /\ UNCHANGED <<roundTripFrame, file, writes, loads>>

\* load_storage, lines 127-145, then line 166
RoundTripLoad ==
    /\ pc = "rt_load"
    /\ LoadOutcome(file) = "ok"
    /\ jar' = RestoredJar(jar, file)
    /\ storage' = RestoredStorage(storage, file)
    /\ initialized' = TRUE
    /\ loads' = loads + 1
    /\ pc' = "rt_done"
    /\ UNCHANGED <<roundTripFrame, file, writes>>

NextRoundTrip == RoundTripSave \/ RoundTripRestart \/ RoundTripLoad

SpecRoundTrip == InitRoundTrip /\ [][NextRoundTrip]_vars

(***************************************************************************)
(* Properties of the runs of main() (specification Spec).                  *)
(***************************************************************************)
\* The statements of lines 252-266, the bodies of login() and of the init()
\* it calls included.
InLoopBody ==
    /\ pc \notin {"start", "wait_port", "port_sleep", "construct", "except", "except_delay",
                  "exit", "exited", "crashed"}
    /\ ~(pc \in {"init", "init_open", "init_wait", "init_delay", "init_load"}
         /\ caller = "main")

\* C1: no step taken inside a keepalive cycle ends the process with an
\* uncaught exception; an exception raised there lands in the except clause,
\* which logs, then pauses loadDelay once, then starts the next cycle, and the
\* process is still running throughout.
C1_LoopSurvivesErrors ==
    [][ /\ (InLoopBody => pc' # "crashed" /\ exitStatus' = "running")
        /\ (pc = "except" /\ pc' # pc => pc' = "except_delay" /\ exitStatus' = "running")
        /\ (pc = "except_delay" /\ pc' # pc => pc' = "loop" /\ exitStatus' = "running")
      ]_vars

\* C1 witness: after an earlier failure the final close has raised and left
\* the browser session ended, so that every cycle from now on fails; the
\* loop is at the top of the next cycle.
C1_Witness ==
    pc = "loop" /\ exitStatus = "running" /\ faults >= 2 /\ driver = "quit"

\* C2: a login() call whose first detection reports LoggedIn returns True
\* without entering credentials or clicking submit; so a login() call that
\* follows one which submitted and returned True, the session valid all
\* along, submits nothing: the two calls make one Submit.
C2_LoggedInShortCircuits ==
    /\ call.pre = "True" =>
          call.submits = 0 /\ ~call.entered /\ ~call.wrote /\ loginRet = "True"
    /\ (pc = "after_login" /\ prev.ret = "True" /\ prev.submits = 1
           /\ prev.valid /\ call.valid) =>
          prev.submits + call.submits = 1 /\ loginRet = "True"

\* C2 witness: the second of two login() calls has returned; the first
\* submitted and succeeded, the session stayed valid.
C2_Witness ==
    /\ pc = "after_login" /\ prev.ret = "True" /\ prev.submits = 1
    /\ prev.valid /\ call.valid /\ call.pre = "True" /\ submits = 1

\* No artifact file at the start, one-shot mode, no submission rejected by
\* the portal, no exception injected.
C3_Pre == file0 = NoFile /\ keepalive <= 0 /\ faults = 0 /\ rejects = 0

\* C3: no artifact file at the start, one-shot mode, the portal rejecting no
\* submission, no exception: the run never crashes, never reaches the except
\* clause or the keepalive sleep, and when it has exited with status 0 it has
\* submitted once, written the artifact file once (the live cookies and local
\* storage) and quit the browser once.
C3_FreshOneShot ==
    C3_Pre =>
       /\ exitStatus # "crashed"
       /\ pc \notin {"except", "except_delay", "ka_sleep", "ka_open", "ka_delay"}
       /\ submits <= 1 /\ writes <= 1
       /\ exitStatus = "0" =>
             /\ submits = 1 /\ writes = 1
             /\ file = Pickle(jar, storage)
             /\ driver = "quit" /\ quitCalls = 1

\* C3 witness: such a run has exited.
C3_Witness == C3_Pre /\ exitStatus = "0" /\ submits = 1 /\ file.kind = "pickle"

\* The artifact file found at the start holds the cookie of a session the
\* portal still honours.
StartValid ==
    /\ file0.kind = "pickle"
    /\ tok0 # 0
    /\ \E i \in 1..Len(file0.cookies) : file0.cookies[i] = SessionCookie(tok0)

\* C4: a valid artifact file at the start, and the session not dropped since:
\* no credentials are entered and no Submit is made, in any cycle.
C4_ValidArtifactNoSubmit ==
    (StartValid /\ ~everExpired) => submits = 0 /\ ~call.entered

\* C4 witness: such a run in keepalive mode, after a login() call that found
\* the restored session, at the end of a keepalive cycle.
C4_Witness ==
    /\ StartValid /\ ~everExpired /\ keepalive > 0
    /\ pc = "ka_delay" /\ call.pre = "True" /\ loginRet = "True" /\ submits = 0

\* C5: in keepalive mode, once the gate has passed and the browser session
\* exists, nothing makes main() exit, an exception raised by the init() of
\* line 248 included.
C5_KeepaliveNeverExits ==
    (keepalive > 0 /\ driver # "none") => exitStatus = "running"

\* C6: the artifact file changes during a login() call only after a
\* post-submit detection of LoggedIn.  When login() has returned: after a
\* Submit it returned True exactly when that detection was LoggedIn, and then
\* it wrote the live cookies and local storage; after a detection of
\* LoggedOut or Indeterminate it returned None and the file is as before; a
\* call that short-circuited left the file as before.
C6_LoginOutcome ==
    /\ file # call.fileBefore => call.post = "True"
    /\ call.wrote => call.post = "True"
    /\ pc = "after_login" =>
          /\ call.submits = 1 => (loginRet = "True" <=> call.post = "True")
          /\ (call.submits = 1 /\ loginRet = "True") =>
                call.wrote /\ file = Pickle(jar, storage)
          /\ call.post \in {"False", "None"} =>
                loginRet = "None" /\ ~call.wrote /\ file = call.fileBefore
          /\ call.submits = 0 =>
                call.post = "unset" /\ ~call.wrote /\ file = call.fileBefore

\* C6 witness: login() has returned after a Submit whose detection was
\* Indeterminate, an earlier artifact file being in place.
C6_Witness ==
    /\ pc = "after_login" /\ call.submits = 1 /\ call.post = "None"
    /\ loginRet = "None" /\ file.kind = "pickle"

(***************************************************************************)
(* Properties of is_logged (specification SpecClassify).                   *)
(***************************************************************************)
Blank(url) == startswith(url, "about:")

\* C7 as stated: every URL with a must-be-logged keyword in its fragment is
\* classified LoggedIn.
C7_Original ==
    (pc = "classified" /\ InFragment(page.url, must_be_logged_keywords)) =>
       detect = "True"

\* C7 amended: every URL that does not start with about: and has a
\* must-be-logged keyword in its fragment is classified LoggedIn, whatever
\* the page source and whatever else the fragment holds.
C7_Amended ==
    (pc = "classified" /\ ~Blank(page.url)
        /\ InFragment(page.url, must_be_logged_keywords)) =>
       detect = "True"

\* C7 witness: a fragment with a must-be-logged and a must-not-be-logged
\* keyword, a page source with the local-password marker.
C7_Witness ==
    /\ pc = "classified" /\ ~Blank(page.url) /\ detect = "True"
    /\ InFragment(page.url, must_be_logged_keywords)
    /\ InFragment(page.url, must_not_logged_keywords)
    /\ Contains(page.src, LocalPasswordMarker)

\* C8 as stated: every URL with a must-not-be-logged keyword and no
\* must-be-logged keyword in its fragment is classified LoggedOut.
C8_Original ==
    (pc = "classified" /\ InFragment(page.url, must_not_logged_keywords)
        /\ ~InFragment(page.url, must_be_logged_keywords)) =>
       detect = "False"

\* C8 amended: every URL that does not start with about: and has a
\* must-not-be-logged keyword and no must-be-logged keyword in its fragment is
\* classified LoggedOut, whatever the page source.
C8_Amended ==
    (pc = "classified" /\ ~Blank(page.url)
        /\ InFragment(page.url, must_not_logged_keywords)
        /\ ~InFragment(page.url, must_be_logged_keywords)) =>
       detect = "False"

\* C8 witness: such a URL with the workspace marker and no local-password
\* marker in the page source.
C8_Witness ==
    /\ pc = "classified" /\ ~Blank(page.url) /\ detect = "False"
    /\ InFragment(page.url, must_not_logged_keywords)
    /\ ~InFragment(page.url, must_be_logged_keywords)
    /\ Contains(page.src, WorkspaceMarker)
    /\ ~Contains(page.src, LocalPasswordMarker)

\* C9: is_logged returns None on the URLs that start with about:, whatever
\* their fragment and the page source, and on no other URL; every other
\* result is True or False.
C9_BlankIffIndeterminate ==
    pc = "classified" =>
       /\ detect \in {"True", "False", "None"}
       /\ detect = "None" <=> Blank(page.url)

\* C9 witness: an about: URL with a must-be-logged keyword in its fragment
\* and the workspace marker in the page source.
C9_Witness ==
    /\ pc = "classified" /\ Blank(page.url) /\ detect = "None"
    /\ InFragment(page.url, must_be_logged_keywords)
    /\ Contains(page.src, WorkspaceMarker)

\* C10: on a URL that does not start with about: and has neither kind of
\* keyword in its fragment, the result is True when the page source has the
\* workspace marker and not the local-password marker, and False in the three
\* other cases.
C10_ContentFallback ==
    (pc = "classified" /\ ~Blank(page.url)
        /\ ~InFragment(page.url, must_be_logged_keywords)
        /\ ~InFragment(page.url, must_not_logged_keywords)) =>
       /\ (Contains(page.src, WorkspaceMarker) /\ ~Contains(page.src, LocalPasswordMarker))
             => detect = "True"
       /\ (Contains(page.src, WorkspaceMarker) /\ Contains(page.src, LocalPasswordMarker))
             => detect = "False"
       /\ (~Contains(page.src, WorkspaceMarker) /\ Contains(page.src, LocalPasswordMarker))
             => detect = "False"
       /\ (~Contains(page.src, WorkspaceMarker) /\ ~Contains(page.src, LocalPasswordMarker))
             => detect = "False"

\* C10 witness: both markers in the page source, and a keyword that sits
\* before the "#" of the URL, outside the fragment.
C10_Witness ==
    /\ pc = "classified" /\ ~Blank(page.url) /\ detect = "False"
    /\ Contains(page.url, "app_center")
    /\ ~InFragment(page.url, must_be_logged_keywords)
    /\ ~InFragment(page.url, must_not_logged_keywords)
    /\ Contains(page.src, WorkspaceMarker) /\ Contains(page.src, LocalPasswordMarker)

(***************************************************************************)
(* Properties of the round-trip runs (specification SpecRoundTrip).        *)
(***************************************************************************)
\* The cookies and the local-storage entries, order aside
AsSet(q) == {q[i] : i \in 1..Len(q)}

\* C11: what update_storage saved is what a later load_storage puts into a
\* fresh browser session: the same cookies and the same local-storage
\* entries, none lost, added or altered; and the save replaces whatever the
\* file held before.
C11_RoundTrip ==
    /\ pc = "rt_restart" => file = Pickle(jar, storage)
    /\ pc = "rt_done" => /\ AsSet(jar) = AsSet(file.cookies)
                         /\ AsSet(storage) = AsSet(file.local_storage)

(***************************************************************************)
(* Properties of the runs of main() (specification Spec), continued.       *)
(***************************************************************************)
\* C12: with no artifact file there, load_storage raises nothing and leaves
\* the browser's cookies and local storage as they are, and init() finishes
\* with the manager Ready (initialized = True) and returns to its caller.
C12_NoFileNoError ==
    [][(pc = "init_load" /\ pc' # "init_load" /\ file = NoFile)
          => /\ jar' = jar
             /\ storage' = storage
             /\ initialized'
             /\ exitStatus' = "running"
             /\ pc' = InitReturn(caller)]_vars

C12_Witness ==
    /\ file0 = NoFile
    /\ loads = 1
    /\ initialized
    /\ pc = "loop"
    /\ jar = <<>> /\ storage = <<>>

\* C13: an artifact file that is there but cannot be decoded does not abort
\* the startup: once load_storage has been called on it, the manager is Ready
\* and the process has not died of the decode error.
C13_CorruptFileHandled ==
    (file0 = CorruptFile /\ loads > 0) => (initialized /\ exitStatus # "crashed")

\* C14: in non-interactive mode a login attempt whose detection after the
\* submission is not LoggedIn (False or None) raises the "User Interact
\* required" error: login() does not return normally from such an attempt.
C14_FailedLoginRaises ==
    (call.post \in {"False", "None"} /\ require_interact(interactive) = "raise")
        => pc # "after_login"

\* C15: an is_logged() of None (Indeterminate) is "do not act": a login()
\* whose first is_logged() gave None does not go on to enter_credentials
\* (line 175), enters no credentials and clicks no login button.
C15_IndeterminateNoSubmit ==
    call.pre = "None" => (pc # "login_enter" /\ ~call.entered /\ call.submits = 0)

\* C16: in one-shot mode (keepalive <= 0) a cycle that gets to line 260
\* without raising closes the browser and ends the process with exit(0),
\* whether login() returned True, was not called (already logged in) or
\* returned None; the loop never sleeps the interval or navigates again
\* (lines 264-266), and nothing happens after the exit.
C16_OneShotEnds ==
    /\ [](keepalive <= 0 => pc \notin {"ka_sleep", "ka_open", "ka_delay"})
    /\ [](exitStatus = "0" => (keepalive <= 0 /\ driver = "quit" /\ pc = "exited"))
    /\ [][keepalive <= 0 =>
            /\ (pc = "keepalive_check" /\ pc' # pc) => pc' = "close"
            /\ (pc = "close" /\ pc' # pc) =>
                  \/ pc' = "exit" /\ driver' = "quit" /\ faults' = faults
                  \/ pc' = "except" /\ faults' = faults + 1
            /\ (pc = "exit" /\ pc' # pc) => (pc' = "exited" /\ exitStatus' = "0")
            /\ pc = "exited" => UNCHANGED vars]_vars

C16_Witness ==
    /\ exitStatus = "0"
    /\ keepalive <= 0
    /\ loginRet = "None"
    /\ call.submits = 1
    /\ faults = 0

\* C17: on every run of main() that has ended, by exit(0) or by an uncaught
\* exception, driver.quit() of the browser that was started has been called
\* exactly once; it is never called a second time.
C17_QuitExactlyOnce ==
    /\ (exitStatus # "running" /\ driver # "none") => quitCalls = 1
    /\ quitCalls <= 1

C19_InitOnce ==
    /\ [](loads <= 1)
    /\ [](initialized => loads = 1)
    /\ [](submits > 0 => (initialized /\ loads = 1))
    /\ [](crashAt \in InitSites => ~initialized)
    /\ [][/\ initialized => initialized'
          /\ (~initialized /\ initialized') =>
                (pc = "init_load" /\ pc' = InitReturn(caller) /\ loads' = loads + 1)
          /\ (pc = "init" /\ pc' # pc /\ initialized) =>
                /\ pc' = InitReturn(caller)
                /\ page' = page /\ jar' = jar /\ storage' = storage
                /\ loads' = loads
          /\ (pc = "init" /\ pc' # pc /\ ~initialized) => pc' = "init_open"
          /\ (pc' = "init_open" /\ pc # pc') => (pc = "init" /\ ~initialized)
          /\ (pc' = "init_wait" /\ pc # pc') => (pc = "init_open" /\ faults' = faults)
          /\ (pc' = "init_delay" /\ pc # pc') => (pc = "init_wait" /\ faults' = faults)
          /\ (pc' = "init_load" /\ pc # pc') => pc = "init_delay"]_vars

C19_Witness ==
    /\ initialized
    /\ loads = 1
    /\ caller = "login"
    /\ pc = "login_detect"
    /\ submits = 1
    /\ file0 = Pickle(<<SessionCookie(1)>>, <<UserEntry(1)>>)

(***************************************************************************)
(* Properties of the keepalive runs (specification SpecKeepalive).         *)
(***************************************************************************)
\* The loop is running and the portal honours no session; s clicks of the
\* login button and r refusals so far
SessionLost(s, r) ==
    /\ initialized
    /\ serverTok = 0
    /\ submits = s
    /\ rejects = r

\* A click of the login button after that, and an is_logged() of True after it
LoggedInAgain(s) == submits > s /\ detect = "True"

\* C20: in keepalive mode, once the session is lost, and as long as the
\* portal refuses no credentials afterwards (exceptions stop, being bounded
\* in number), the loop eventually clicks the login button and is_logged()
\* reports True again.  A cycle whose is_logged() at line 252 is True clicks
\* nothing: it only sleeps the interval, navigates to the portal and waits.
C20_SessionRecovered ==
    /\ \A s \in 0..(MaxSubmits - 1) : \A r \in 0..MaxSubmits :
          [](SessionLost(s, r) => <>(LoggedInAgain(s) \/ rejects > r))
    /\ [][/\ (pc = "loop" /\ pc' = "keepalive_check") =>
                (detect' = "True" /\ submits' = submits)
          /\ (pc = "loop" /\ pc' = "relog_open") => detect' # "True"
          /\ (pc = "keepalive_check" /\ pc' # pc) => pc' = "ka_sleep"
          /\ (pc = "ka_sleep" /\ pc' # pc) => pc' \in {"ka_open", "except"}
          /\ (pc = "ka_open" /\ pc' # pc) => pc' \in {"ka_delay", "except"}
          /\ (pc = "ka_delay" /\ pc' # pc) => pc' = "loop"
          /\ (pc \in {"keepalive_check", "ka_sleep", "ka_open", "ka_delay"}) =>
                submits' = submits]_vars

C20_Witness ==
    /\ everExpired
    /\ tok0 = 1
    /\ serverTok # 0
    /\ submits = 1
    /\ rejects = 0
    /\ detect = "True"
    /\ loginRet = "True"
    /\ pc = "ka_sleep"

====
